---- MODULE Spec2Model ----
(***************************************************************************)
(* Model of the rainbow-rich-auth-server license core:                     *)
(*   - services/authService.js   (request authenticator, credential check) *)
(*   - services/firebaseService  (subscription state machine over the      *)
(*                                document store; src/unnamed/part_000)    *)
(*   - the HTTP route handlers   (src/server.js and src/unnamed/part_002,  *)
(*                                src/unnamed/part_001)                    *)
(*                                                                         *)
(* Conventions.                                                            *)
(*   JavaScript values are tagged records [t |-> type, v |-> value].       *)
(*   JavaScript strings are sequences of one-character strings, so that    *)
(*   hex decoding and pattern matching are computed character by           *)
(*   character.  A JSON object is a sequence of entries [k, v] in          *)
(*   insertion order.                                                      *)
(*   Time is counted in ticks since the epoch; a calendar date "YYYY-MM-DD"*)
(*   is the number of the UTC day.  The host time zone is taken to have a  *)
(*   fixed UTC offset (no daylight-saving transition), for which           *)
(*   Date#setDate(getDate() + n) moves the instant by n * 24h.             *)
(*   The logger is an external collaborator whose calls return normally.   *)
(***************************************************************************)
EXTENDS Integers, Sequences, FiniteSets, Bags, TLC

VARIABLES
    env,          \* process.env, and whether the Firebase SDK accepts it
    app,          \* which server file is the process entry point
    phase,        \* "loading" | "serving" | "aborted"
    now,          \* the clock, in ticks since the epoch
    store,        \* collection 'subscriptions': username -> document
    pending,      \* bag of handlers suspended between two store calls
    last,         \* the most recent completed HTTP exchange (+ observations)
    scen,         \* progress of the end-to-end scenario being observed
    ops,          \* number of requests received so far
    unauthenticated, \* a handler has called the store for a request that
                  \* the Request Authenticator does not accept
    sigPhase,     \* authenticator harness: "off" | "input" | "done"
    sigData,      \* authenticator harness: the payload
    sigProvided,  \* authenticator harness: the provided signature value
    sigResult,    \* authenticator harness: outcome of verifySignature
    call,         \* function harness: the function called and its arguments
    ret,          \* function harness: what the call returned or threw
    scan          \* scan harness: progress of getAllSubscriptions or
                  \* getSubscriptionStats over a snapshot

vars == <<env, app, phase, now, store, pending, last, scen, ops, unauthenticated,
          sigPhase, sigData, sigProvided, sigResult, call, ret, scan>>

srvVars == <<env, app, phase, now, store, pending, last, scen, ops, unauthenticated>>
sigVars == <<sigPhase, sigData, sigProvided, sigResult>>
fnVars == <<call, ret, scan>>

----------------------------------------------------------------------------
(* Bounds of the model *)

TicksPerDay == 2        \* tick 0 of a day is 00:00:00.000 UTC exactly
MaxTicks == 2           \* ticks the clock advances in one behaviour
MaxInflight == 2        \* handlers suspended at an await at the same time
MaxOps == 2             \* requests received in one behaviour
DigestBytes == 2        \* bytes of the keyed digest (scaled down)

(* Program constants *)

ReplayWindowMs == 300000
MsPerDay == 86400000
DateMaxDay == 100000000      \* ECMAScript time range: +-8.64e15 ms
DefaultDays == 30
PremiumDays == 90

MsPerTick == MsPerDay \div TicksPerDay

\* the process starts at 00:00:00.000 UTC of day 1
StartTime == TicksPerDay
EndTime == StartTime + MaxTicks

----------------------------------------------------------------------------
(* JavaScript values *)

Str(s) == [t |-> "string", v |-> s]
Num(n) == [t |-> "number", v |-> n]
Obj(o) == [t |-> "object", v |-> o]
Arr(a) == [t |-> "array", v |-> a]
NaN == [t |-> "nan", v |-> 0]
Null == [t |-> "null", v |-> 0]
Undefined == [t |-> "undefined", v |-> 0]

Entry(k, val) == [k |-> k, v |-> val]

\* obj[key] for a JSON object given as a sequence of entries
Get(obj, key) ==
    IF \E i \in 1..Len(obj) : obj[i].k = key
    THEN obj[CHOOSE i \in 1..Len(obj) : obj[i].k = key].v
    ELSE Undefined

\* ToBoolean
Truthy(x) ==
    CASE x.t = "undefined" -> FALSE
      [] x.t = "null" -> FALSE
      [] x.t = "nan" -> FALSE
      [] x.t = "number" -> x.v # 0
      [] x.t = "string" -> Len(x.v) > 0
      [] OTHER -> TRUE

\* outcome of an evaluation that may throw
Return(x) == [kind |-> "return", v |-> x]
Throw(e) == [kind |-> "throw", v |-> e]

\* the difference taken with its sign
Abs_Signed(n) == n

Abs(n) == IF n < 0 THEN 0 - n ELSE n

RECURSIVE Pow2(_)
Pow2(n) == IF n = 0 THEN 1 ELSE 2 * Pow2(n - 1)

----------------------------------------------------------------------------
(* Characters *)

Digits == <<"0", "1", "2", "3", "4", "5", "6", "7", "8", "9">>
HexDigits == <<"0", "1", "2", "3", "4", "5", "6", "7",
               "8", "9", "a", "b", "c", "d", "e", "f">>

\* value of one hex character, -1 when it is not one (both cases accepted)
HexVal(c) ==
    CASE c = "0" -> 0 [] c = "1" -> 1 [] c = "2" -> 2 [] c = "3" -> 3
      [] c = "4" -> 4 [] c = "5" -> 5 [] c = "6" -> 6 [] c = "7" -> 7
      [] c = "8" -> 8 [] c = "9" -> 9
      [] c = "a" -> 10 [] c = "b" -> 11 [] c = "c" -> 12
      [] c = "d" -> 13 [] c = "e" -> 14 [] c = "f" -> 15
      [] c = "A" -> 10 [] c = "B" -> 11 [] c = "C" -> 12
      [] c = "D" -> 13 [] c = "E" -> 14 [] c = "F" -> 15
      [] OTHER -> 0 - 1

\* the units the canonical string is made of: punctuation, the quoted
\* property names and the characters of string and number values
Alphabet ==
    <<"{", "}", ":", ",", "\"", "-", "@", ".", " ",
      "0", "1", "2", "3", "4", "5", "6", "7", "8", "9",
      "a", "b", "c", "d", "e", "f", "g", "h", "i", "j", "k", "l", "m",
      "n", "o", "p", "q", "r", "s", "t", "u", "v", "w", "x", "y", "z",
      "A", "B", "C", "D", "E", "F",
      "days", "id", "meta", "plan", "signature", "timestamp", "username">>

CharCode(c) == CHOOSE i \in 1..Len(Alphabet) : Alphabet[i] = c

\* property names in the order of Array.prototype.sort (UTF-16 code units)
KeyOrder == <<"days", "id", "meta", "plan", "signature", "timestamp", "username">>

KeyRank(k) == CHOOSE i \in 1..Len(KeyOrder) : KeyOrder[i] = k

----------------------------------------------------------------------------
(* Buffer.from(value, 'hex') and crypto.timingSafeEqual *)

\* decoding of the pairs of hex characters of s from position i on: it stops
\* at the first pair that is not two hex characters, and a trailing single
\* character is dropped
RECURSIVE HexDecodeFrom(_, _)
HexDecodeFrom(s, i) ==
    IF i + 1 > Len(s) THEN <<>>
    ELSE IF HexVal(s[i]) < 0 \/ HexVal(s[i + 1]) < 0 THEN <<>>
    ELSE <<HexVal(s[i]) * 16 + HexVal(s[i + 1])>> \o HexDecodeFrom(s, i + 2)

\* Buffer.from(x, 'hex'): a string is decoded, an array gives its bytes,
\* undefined, null and numbers are a TypeError
BufferFromHex(x) ==
    CASE x.t = "string" -> Return(HexDecodeFrom(x.v, 1))
      [] x.t = "array" -> Return([i \in 1..Len(x.v) |-> x.v[i] % 256])
      [] OTHER -> Throw("TypeError")

\* a comparison of the byte lengths alone
timingSafeEqual_LengthOnly(a, b) ==
    IF Len(a) # Len(b) THEN Throw("RangeError") ELSE Return(TRUE)

\* crypto.timingSafeEqual(a, b): a RangeError when the byte lengths differ
timingSafeEqual(a, b) ==
    IF Len(a) # Len(b) THEN Throw("RangeError") ELSE Return(a = b)

\* digest('hex'): two lower-case hex characters per byte, most significant first
RECURSIVE HexEncode(_, _)
HexEncode(n, bytes) ==
    IF bytes = 0 THEN <<>>
    ELSE HexEncode(n \div 256, bytes - 1)
         \o <<HexDigits[((n % 256) \div 16) + 1], HexDigits[(n % 16) + 1]>>

----------------------------------------------------------------------------
(* JSON.stringify(value, replacerArray) *)

RECURSIVE NatDigits(_)
NatDigits(n) ==
    IF n < 10 THEN <<Digits[n + 1]>>
    ELSE NatDigits(n \div 10) \o <<Digits[(n % 10) + 1]>>

NumberToString(n) == IF n < 0 THEN <<"-">> \o NatDigits(0 - n) ELSE NatDigits(n)

\* Object.keys(obj): the property names in insertion order
ObjectKeys(obj) == [i \in 1..Len(obj) |-> obj[i].k]

\* insertion of k into a sequence of names sorted by code-unit order
RECURSIVE InsertSorted(_, _)
InsertSorted(k, sorted) ==
    IF sorted = <<>> THEN <<k>>
    ELSE IF KeyRank(k) < KeyRank(Head(sorted)) THEN <<k>> \o sorted
    ELSE <<Head(sorted)>> \o InsertSorted(k, Tail(sorted))

\* the property names left in insertion order
SortKeys_Unsorted(keys) == keys

\* Array.prototype.sort() without comparator
RECURSIVE SortKeys(_)
SortKeys(keys) ==
    IF keys = <<>> THEN <<>> ELSE InsertSorted(Head(keys), SortKeys(Tail(keys)))

\* the object with all its properties, signature included
OmitSignature_Keep(obj) == obj

\* the object without its own 'signature' property ({ signature, ...dataToSign })
RECURSIVE OmitSignature(_)
OmitSignature(obj) ==
    IF obj = <<>> THEN <<>>
    ELSE IF Head(obj).k = "signature" THEN OmitSignature(Tail(obj))
    ELSE <<Head(obj)>> \o OmitSignature(Tail(obj))

\* serialization of an object: the names of the replacer array, in its order,
\* that are own properties of the object; the same list filters the
\* properties of every nested object
RECURSIVE SerializeObject(_, _)
RECURSIVE SerializeValue(_, _)
RECURSIVE SerializeProps(_, _, _, _)
SerializeProps(obj, props, i, first) ==
    IF i > Len(props) THEN <<>>
    ELSE IF Get(obj, props[i]).t = "undefined"
         THEN SerializeProps(obj, props, i + 1, first)
         ELSE (IF first THEN <<>> ELSE <<",">>)
              \o <<props[i], ":">>
              \o SerializeValue(Get(obj, props[i]), props)
              \o SerializeProps(obj, props, i + 1, FALSE)

SerializeObject(obj, props) ==
    <<"{">> \o SerializeProps(obj, props, 1, TRUE) \o <<"}">>

SerializeValue(x, props) ==
    CASE x.t = "string" -> <<"\"">> \o x.v \o <<"\"">>
      [] x.t = "number" -> NumberToString(x.v)
      [] x.t = "object" -> SerializeObject(x.v, props)
      [] OTHER -> <<"n", "u", "l", "l">>

JSONstringify(obj, replacer) == SerializeObject(obj, replacer)

----------------------------------------------------------------------------
(* services/authService.js *)

\* crypto.createHmac('sha256', apiSecret).update(message).digest(): the keyed
\* digest, as a number of DigestBytes bytes.  apiSecret enters as the start
\* value.
ApiSecretSeed == 7

RECURSIVE HmacFold(_, _, _)
HmacFold(message, i, h) ==
    IF i > Len(message) THEN h
    ELSE HmacFold(message, i + 1,
                  (h * 31 + CharCode(message[i])) % Pow2(8 * DigestBytes))

Hmac(message) == HmacFold(message, 1, ApiSecretSeed)

\* AuthService.generateSignature(data)
generateSignature(data) ==
    IF data.t # "object"
    THEN Throw("TypeError")
    ELSE LET dataToSign == OmitSignature(data.v)
             message == JSONstringify(dataToSign, SortKeys(ObjectKeys(dataToSign)))
         IN  Return(Str(HexEncode(Hmac(message), DigestBytes)))

\* the body of the try block of verifySignature
verifySignatureTry(data, providedSignature) ==
    LET expectedSignature == generateSignature(data)
    IN  IF expectedSignature.kind = "throw" THEN expectedSignature
        ELSE LET a == BufferFromHex(expectedSignature.v)
                 b == BufferFromHex(providedSignature)
             IN  IF a.kind = "throw" THEN a
                 ELSE IF b.kind = "throw" THEN b
                 ELSE timingSafeEqual(a.v, b.v)

\* AuthService.verifySignature(data, providedSignature): catch returns false
verifySignature(data, providedSignature) ==
    LET r == verifySignatureTry(data, providedSignature)
    IN  IF r.kind = "throw" THEN Return(FALSE) ELSE r

\* Number(x) as used by the subtraction now - data.timestamp
RECURSIVE DigitsToNat(_, _)
DigitsToNat(s, acc) ==
    IF s = <<>> THEN acc
    ELSE DigitsToNat(Tail(s), acc * 10 + HexVal(Head(s)))

ToNumber(x) ==
    CASE x.t = "number" -> x
      [] x.t = "string" ->
            IF \A i \in 1..Len(x.v) : HexVal(x.v[i]) \in 0..9
            THEN Num(DigitsToNat(x.v, 0)) ELSE NaN
      [] x.t = "null" -> Num(0)
      [] OTHER -> NaN

\* AuthService.isValidEmail(email):  /^[^\s@]+@[^\s@]+\.[^\s@]+$/
isValidEmail(email) ==
    \E i, j \in 1..Len(email) :
        /\ email[i] = "@"
        /\ email[j] = "."
        /\ 1 < i /\ i + 1 < j /\ j < Len(email)
        /\ \A n \in 1..Len(email) : n # i => email[n] \notin {"@", " "}

\* a validation that stops at the first violation
validateRequestData_FirstOnly(data, nowMs) ==
    LET username == Get(data, "username")
        timestamp == Get(data, "timestamp")
        fail(e) == [isValid |-> FALSE, errors |-> <<e>>]
    IN  IF ~Truthy(username) THEN fail("Username is required")
        ELSE IF ~Truthy(timestamp) THEN fail("Timestamp is required")
        ELSE IF ~Truthy(Get(data, "signature")) THEN fail("Signature is required")
        ELSE IF ToNumber(timestamp).t = "number"
                /\ Abs(nowMs - ToNumber(timestamp).v) > ReplayWindowMs
        THEN fail("Request timestamp is too old")
        ELSE IF ~(username.t = "string" /\ isValidEmail(username.v))
        THEN fail("Invalid email format")
        ELSE [isValid |-> TRUE, errors |-> <<>>]

\* AuthService.validateRequestData(data), nowMs being Date.now()
validateRequestData(data, nowMs) ==
    LET username == Get(data, "username")
        timestamp == Get(data, "timestamp")
        signature == Get(data, "signature")
        e1 == IF ~Truthy(username) THEN <<"Username is required">> ELSE <<>>
        e2 == IF ~Truthy(timestamp) THEN <<"Timestamp is required">> ELSE <<>>
        e3 == IF ~Truthy(signature) THEN <<"Signature is required">> ELSE <<>>
        e4 == IF Truthy(timestamp)
                 /\ ToNumber(timestamp).t = "number"
                 /\ Abs(nowMs - ToNumber(timestamp).v) > ReplayWindowMs
              THEN <<"Request timestamp is too old">> ELSE <<>>
        e5 == IF Truthy(username)
                 /\ ~(username.t = "string" /\ isValidEmail(username.v))
              THEN <<"Invalid email format">> ELSE <<>>
        errors == e1 \o e2 \o e3 \o e4 \o e5
    IN  [isValid |-> Len(errors) = 0, errors |-> errors]

\* AuthService.generatePasswordHash(password):
\* crypto.createHash('sha256').update(password).digest('hex'), the digest
\* scaled down to DigestBytes bytes; update() takes strings and buffers only
generatePasswordHash(password) ==
    IF password.t # "string" THEN Throw("TypeError")
    ELSE Return(Str(HexEncode(HmacFold(password.v, 1, 0), DigestBytes)))

\* the body of the try block of verifyAdminPassword; adminPasswordHash is
\* this.adminPasswordHash, a string that is not empty (constructor)
verifyAdminPasswordTry(password, adminPasswordHash) ==
    LET passwordHash == generatePasswordHash(password)
    IN  IF passwordHash.kind = "throw" THEN passwordHash
        ELSE LET a == BufferFromHex(adminPasswordHash)
                 b == BufferFromHex(passwordHash.v)
             IN  IF a.kind = "throw" THEN a
                 ELSE IF b.kind = "throw" THEN b
                 ELSE timingSafeEqual(a.v, b.v)

\* a comparison that stops at the first byte that differs
timingSafeEqualReads_EarlyExit(a, b) ==
    {i \in 1..Len(a) : \A j \in 1..(i - 1) : a[j] = b[j]}

\* the bytes crypto.timingSafeEqual reads of two buffers of one length: all
\* of them, whatever they hold
timingSafeEqualReads(a, b) == 1..Len(a)

\* the control flow of verifySignature: the branch it leaves by, and the
\* bytes the comparison reads
verifySignaturePath(data, providedSignature) ==
    IF verifySignatureTry(data, providedSignature).kind = "throw"
    THEN [exit |-> "catch", reads |-> {}]
    ELSE [exit |-> "return",
          reads |-> timingSafeEqualReads(
                        BufferFromHex(generateSignature(data).v).v,
                        BufferFromHex(providedSignature).v)]

\* the control flow of verifyAdminPassword
verifyAdminPasswordPath(password, adminPasswordHash) ==
    IF verifyAdminPasswordTry(password, adminPasswordHash).kind = "throw"
    THEN [exit |-> "catch", reads |-> {}]
    ELSE [exit |-> "return",
          reads |-> timingSafeEqualReads(
                        BufferFromHex(adminPasswordHash).v,
                        BufferFromHex(generatePasswordHash(password).v).v)]

\* a verification that accepts every password
verifyAdminPassword_AcceptAll(password, adminPasswordHash) == Return(TRUE)

\* AuthService.verifyAdminPassword(password): catch returns false
verifyAdminPassword(password, adminPasswordHash) ==
    LET r == verifyAdminPasswordTry(password, adminPasswordHash)
    IN  IF r.kind = "throw" THEN Return(FALSE) ELSE r

----------------------------------------------------------------------------
(* Date *)

\* new Date("YYYY-MM-DD"): 00:00:00.000 UTC of that day
ParseDate(day) == day * TicksPerDay

\* date.toISOString().split('T')[0]: the UTC day of an instant
ISODate(t) == t \div TicksPerDay

\* date.setDate(date.getDate() + n)
AddDays(t, n) == t + n * TicksPerDay

\* outside the time range the Date is invalid and toISOString throws
ValidDate(t) == Abs(t) <= DateMaxDay * TicksPerDay

----------------------------------------------------------------------------
(* services/firebaseService (src/unnamed/part_000) *)

\* the message texts, by the line that returns them
MsgNoSubscription == "verify: no subscription"          \* part_000:72
MsgExpired == "verify: subscription expired"            \* part_000:80
MsgValid == "verify: subscription valid"                \* part_000:83
MsgVerifyError == "verify: error"                       \* part_000:89
MsgUpdated == "subscribe: subscription updated"         \* part_000:113
MsgSubscribeError == "subscribe: error"                 \* part_000:118
MsgNoRenewTarget == "renew: no subscription to renew"   \* part_000:132
MsgRenewed == "renew: subscription renewed"             \* part_000:150
MsgRenewError == "renew: error"                         \* part_000:155
MsgNoCancelTarget == "cancel: no subscription to cancel" \* part_000:169
MsgCancelled == "cancel: subscription cancelled"        \* part_000:173
MsgCancelError == "cancel: error"                       \* part_000:176

\* doc.exists
Exists(st, username) == username \in DOMAIN st

\* set() with merge: the fields of data replace or extend the document
DocSet_Merge(st, username, data) ==
    [u \in DOMAIN st \cup {username} |->
        IF u # username THEN st[u]
        ELSE IF u \notin DOMAIN st THEN data
        ELSE [f \in DOMAIN st[u] \cup DOMAIN data |->
                 IF f \in DOMAIN data THEN data[f] ELSE st[u][f]]]

\* docRef.set(data): the document becomes exactly data
DocSet(st, username, data) ==
    [u \in DOMAIN st \cup {username} |-> IF u = username THEN data ELSE st[u]]

\* an update() that replaces the document by data
DocUpdate_Replace(st, username, data) == DocSet(st, username, data)

\* docRef.update(data): the fields of data replace or extend those of the
\* document; the caller has checked that the document exists
DocUpdate(st, username, data) ==
    [u \in DOMAIN st |->
        IF u = username
        THEN [f \in DOMAIN st[u] \cup DOMAIN data |->
                 IF f \in DOMAIN data THEN data[f] ELSE st[u][f]]
        ELSE st[u]]

\* docRef.delete()
DocDelete(st, username) == [u \in DOMAIN st \ {username} |-> st[u]]

\* the comparison of verifySubscription (and of the scans): now > expiryDate
IsExpired(nowT, expires) == nowT > ParseDate(expires)

\* FirebaseService.verifySubscription(username); up: the get() succeeds
verifySubscription(st, username, nowT, up) ==
    IF ~up THEN [message |-> MsgVerifyError]
    ELSE IF ~Exists(st, username) THEN [message |-> MsgNoSubscription]
    ELSE IF IsExpired(nowT, st[username].expires) THEN [message |-> MsgExpired]
    ELSE [message |-> MsgValid, expires |-> st[username].expires]

\* the document written by subscribe
SubscriptionData(username, duration, nowT) ==
    [username |-> username,
     expires |-> ISODate(AddDays(nowT, duration)),
     createdAt |-> nowT,
     duration |-> duration]

\* FirebaseService.subscribe(username, duration); up: the set() succeeds.
\* Gives the result and the store after the call.
subscribe(st, username, duration, nowT, up) ==
    IF ~ValidDate(AddDays(nowT, duration))
    THEN [result |-> [message |-> MsgSubscribeError], store |-> st]
    ELSE IF ~up
    THEN [result |-> [message |-> MsgSubscribeError], store |-> st]
    ELSE [result |-> [message |-> MsgUpdated,
                      expires |-> ISODate(AddDays(nowT, duration))],
          store |-> DocSet(st, username, SubscriptionData(username, duration, nowT))]

\* the new expiry computed by renewSubscription from the document it read
RenewExpiry(expires, duration) == AddDays(ParseDate(expires), duration)

\* renewSubscription counting the new expiry from today
UpdateData_FromToday(expires, duration, nowT) ==
    [expires |-> ISODate(AddDays(nowT, duration)),
     renewedAt |-> nowT,
     lastRenewalDuration |-> duration]

\* the fields renewSubscription passes to update()
UpdateData(expires, duration, nowT) ==
    [expires |-> ISODate(RenewExpiry(expires, duration)),
     renewedAt |-> nowT,
     lastRenewalDuration |-> duration]

\* FirebaseService.renewSubscription up to its second await: the get() and
\* the computation of updateData.  Gives either the result returned at once
\* or the update left to do.
renewSubscriptionRead(st, username, duration, nowT, up) ==
    IF ~up THEN [done |-> TRUE, result |-> [message |-> MsgRenewError]]
    ELSE IF ~Exists(st, username)
    THEN [done |-> TRUE, result |-> [message |-> MsgNoRenewTarget]]
    ELSE IF ~ValidDate(RenewExpiry(st[username].expires, duration))
    THEN [done |-> TRUE, result |-> [message |-> MsgRenewError]]
    ELSE [done |-> FALSE,
          expires |-> st[username].expires,
          updateData |-> UpdateData(st[username].expires, duration, nowT)]

\* renewSubscription with its read and write in one transaction: the new
\* expiry is counted from the document as it is at the write
renewSubscriptionWrite_Transactional(st, username, updateData, up) ==
    IF ~up \/ username \notin DOMAIN st
    THEN [result |-> [message |-> MsgRenewError], store |-> st]
    ELSE LET expires == st[username].expires + updateData.lastRenewalDuration
         IN  [result |-> [message |-> MsgRenewed, expires |-> expires],
              store |-> [st EXCEPT ![username] =
                            [f \in DOMAIN st[username] \cup DOMAIN updateData |->
                                IF f = "expires" THEN expires
                                ELSE IF f \in DOMAIN updateData THEN updateData[f]
                                ELSE st[username][f]]]]

\* renewSubscription writing with set(updateData, {merge: true}), which
\* creates the document when it is gone
renewSubscriptionWrite_Upsert(st, username, updateData, up) ==
    IF ~up
    THEN [result |-> [message |-> MsgRenewError], store |-> st]
    ELSE [result |-> [message |-> MsgRenewed, expires |-> updateData.expires],
          store |-> DocSet_Merge(st, username, updateData)]

\* FirebaseService.renewSubscription from docRef.update(updateData) on;
\* update() fails when the store does or when the document is gone
renewSubscriptionWrite(st, username, updateData, up) ==
    IF ~up \/ ~Exists(st, username)
    THEN [result |-> [message |-> MsgRenewError], store |-> st]
    ELSE [result |-> [message |-> MsgRenewed, expires |-> updateData.expires],
          store |-> DocUpdate(st, username, updateData)]

\* FirebaseService.renewSubscription(username, duration) run from its get()
\* to its return with nothing in between and the store up: the store after it
renewSubscription(st, username, duration, nowT) ==
    LET r == renewSubscriptionRead(st, username, duration, nowT, TRUE)
    IN  IF r.done THEN st
        ELSE renewSubscriptionWrite(st, username, r.updateData, TRUE).store

\* cancelSubscription without the doc.exists test
cancelSubscriptionRead_NoExistsTest(st, username, up) ==
    IF ~up THEN [done |-> TRUE, result |-> [message |-> MsgCancelError]]
    ELSE [done |-> FALSE]

\* FirebaseService.cancelSubscription up to its second await
cancelSubscriptionRead(st, username, up) ==
    IF ~up THEN [done |-> TRUE, result |-> [message |-> MsgCancelError]]
    ELSE IF ~Exists(st, username)
    THEN [done |-> TRUE, result |-> [message |-> MsgNoCancelTarget]]
    ELSE [done |-> FALSE]

\* FirebaseService.cancelSubscription from docRef.delete() on; deleting a
\* document that is already gone succeeds
cancelSubscriptionDelete(st, username, up) ==
    IF ~up THEN [result |-> [message |-> MsgCancelError], store |-> st]
    ELSE [result |-> [message |-> MsgCancelled], store |-> DocDelete(st, username)]

----------------------------------------------------------------------------
(* The route handlers: src/server.js, src/unnamed/part_002, part_001 *)

AppSrc == "src/server.js"
AppRoot == "src/unnamed/part_002"
AppLegacy == "src/unnamed/part_001"
Apps == {AppSrc, AppRoot, AppLegacy}

MsgUsernameRequired == "http: username required"
MsgHttpValid == "http: subscription valid"
MsgHttpCreated == "http: subscription created"
MsgHttpRenewed == "http: subscription renewed"
MsgHttpCancelled == "http: subscription cancelled"

\* parseInt(x): the integer a number or the leading characters of a string
\* denote, NaN when there is none
RECURSIVE LeadingDigits(_)
LeadingDigits(s) ==
    IF s = <<>> THEN <<>>
    ELSE IF HexVal(Head(s)) \in 0..9 THEN <<Head(s)>> \o LeadingDigits(Tail(s))
    ELSE <<>>

parseInt(x) ==
    CASE x.t = "number" -> x
      [] x.t = "string" ->
            LET neg == x.v # <<>> /\ Head(x.v) = "-"
                ds == LeadingDigits(IF neg THEN Tail(x.v) ELSE x.v)
            IN  IF ds = <<>> THEN NaN
                ELSE Num(IF neg THEN 0 - DigitsToNat(ds, 0) ELSE DigitsToNat(ds, 0))
      [] OTHER -> NaN

\* const { days = 30 } = req.body;  parseInt(days) || 30
DaysOrDefault(body) ==
    LET days == IF Get(body, "days").t = "undefined"
                THEN Num(DefaultDays) ELSE Get(body, "days")
    IN  IF Truthy(parseInt(days)) THEN parseInt(days).v ELSE DefaultDays

\* const { plan = 'basic' } = req.body;  plan === 'premium' ? 90 : 30
PlanDays(body) ==
    IF Get(body, "plan") = Str(<<"p", "r", "e", "m", "i", "u", "m">>)
    THEN PremiumDays ELSE DefaultDays

\* the duration the subscribe route passes to the service
SubscribeDuration(appId, body) ==
    IF appId = AppSrc THEN PlanDays(body) ELSE DaysOrDefault(body)

\* the duration the renew route passes to the service
RenewDuration(appId, body) ==
    IF appId = AppSrc THEN DefaultDays ELSE DaysOrDefault(body)

\* the test on the service result that selects the success response:
\* src/server.js tests result.success, part_002 compares the message text
ResultSucceeded(appId, result, okMessage) ==
    IF appId = AppSrc
    THEN "success" \in DOMAIN result /\ result.success = TRUE
    ELSE result.message = okMessage

\* the 400 response of a request without username
BadRequest == [status |-> 400,
               body |-> [success |-> FALSE, message |-> MsgUsernameRequired]]

\* the response of a route, given the service result
RouteResponse(appId, result, okMessage, httpMessage, withExpires) ==
    IF ResultSucceeded(appId, result, okMessage)
    THEN IF withExpires /\ "expires" \in DOMAIN result
         THEN [status |-> 200,
               body |-> [success |-> TRUE, message |-> httpMessage,
                         expires |-> result.expires]]
         ELSE [status |-> 200, body |-> [success |-> TRUE, message |-> httpMessage]]
    ELSE [status |-> 200, body |-> [success |-> FALSE, message |-> result.message]]

\* whether the Request Authenticator accepts the request: the envelope is
\* valid and the signature verifies
Authenticated(body, nowT) ==
    /\ validateRequestData(body, nowT * MsPerTick).isValid
    /\ verifySignature(Obj(body), Get(body, "signature")).v

----------------------------------------------------------------------------
(* The requests the model sends *)

UserA == <<"a", "@", "b", ".", "c">>
UserB == <<"x", "@", "y", ".", "z">>
Subjects == {UserA, UserB}

HugeDays == 2 * DateMaxDay

UsernameEntries == {<<>>} \cup {<<Entry("username", Str(u))>> : u \in Subjects}
DaysEntries == {<<>>} \cup {<<Entry("days", Num(n))>> : n \in {1, 0 - 1, HugeDays}}
PlanEntries == {<<>>, <<Entry("plan", Str(<<"p", "r", "e", "m", "i", "u", "m">>))>>}

\* the fields of a request body other than the envelope
PlainBodies(appId, op) ==
    IF op \in {"verify", "cancel"} THEN UsernameEntries
    ELSE IF appId = AppSrc
    THEN IF op = "subscribe"
         THEN {u \o x : u \in UsernameEntries, x \in PlanEntries}
         ELSE UsernameEntries
    ELSE {u \o x : u \in UsernameEntries, x \in DaysEntries}

\* the body with the envelope a signing client adds: the current time and
\* the signature over the other fields
Signed(body, nowT) ==
    LET stamped == body \o <<Entry("timestamp", Num(nowT * MsPerTick))>>
    IN  stamped \o <<Entry("signature", generateSignature(Obj(stamped)).v)>>

\* clients that sign send the username alone
RequestBodies(appId, op, nowT) ==
    PlainBodies(appId, op) \cup {Signed(b, nowT) : b \in UsernameEntries \ {<<>>}}

Operations == {"verify", "subscribe", "renew", "cancel"}

\* the requests that can arrive at each instant, each with the verdict of
\* the Request Authenticator on it (RequestBodies and Authenticated,
\* tabulated)
Requests ==
    [t \in StartTime..EndTime |-> [a \in Apps |-> [op \in Operations |->
        {[body |-> b, accepted |-> Authenticated(b, t)] :
            b \in RequestBodies(a, op, t)}]]]

----------------------------------------------------------------------------
(* Observations *)

NoDoc == [f \in {} |-> 0]
NoResult == [message |-> ""]

\* the document of username, NoDoc when there is none
DocOf(st, username) == IF Exists(st, username) THEN st[username] ELSE NoDoc

\* a completed exchange: the request (op, user), the response (status,
\* body), and what the handler did: the result the service returned
\* (NoResult when it was not called), whether the store was called, the
\* duration applied, the expiry a renewal read, and the document as it was
\* just before the handler's write
Exchange(op, user, resp, result, touched, duration, snap, prevDoc) ==
    [op |-> op, user |-> user, status |-> resp.status, body |-> resp.body,
     result |-> result, touched |-> touched,
     duration |-> duration, snap |-> snap, prevDoc |-> prevDoc]

NoExchange ==
    [op |-> "none", user |-> Undefined, status |-> 0,
     body |-> [success |-> FALSE, message |-> ""],
     result |-> NoResult, touched |-> FALSE,
     duration |-> 0, snap |-> 0, prevDoc |-> NoDoc]

NoUpdate == [expires |-> 0, renewedAt |-> 0, lastRenewalDuration |-> 0]

\* a handler suspended at its second store call
Suspended(op, username, duration, snap, updateData) ==
    [op |-> op, user |-> username, duration |-> duration,
     snap |-> snap, updateData |-> updateData]

Scen0 == [st |-> 0, user |-> <<>>, day |-> 0, ok1 |-> TRUE, ok2 |-> TRUE]

\* the observer of the sequence Subscribe(s, 30), Verify(s), Cancel(s),
\* Verify(s) on one day with nothing else done on s in between: st counts
\* the steps seen, ok1 and ok2 record what the two Verify answered
ScenStep(sc, ev, username, service, body, nowT, duration) ==
    IF ev = "subscribe" /\ service = MsgUpdated /\ duration = DefaultDays
    THEN [st |-> 1, user |-> username, day |-> ISODate(nowT),
          ok1 |-> TRUE, ok2 |-> TRUE]
    ELSE IF sc.st = 0 \/ username # sc.user THEN sc
    ELSE IF ev = "verify" /\ sc.st = 1 /\ ISODate(nowT) = sc.day
            /\ service # MsgVerifyError
    THEN [sc EXCEPT !.st = 2,
                    !.ok1 = /\ body.success
                            /\ "expires" \in DOMAIN body
                            /\ body.expires = sc.day + DefaultDays]
    ELSE IF ev = "cancelRead" /\ sc.st = 2 THEN sc
    ELSE IF ev = "cancel" /\ sc.st = 2 /\ service = MsgCancelled
    THEN [sc EXCEPT !.st = 3]
    ELSE IF ev = "verify" /\ sc.st = 3 /\ service # MsgVerifyError
    THEN [sc EXCEPT !.st = 4,
                    !.ok2 = ~body.success /\ body.message = MsgNoSubscription]
    ELSE Scen0

----------------------------------------------------------------------------
(* The server *)

SigIdle ==
    /\ sigPhase = "off"
    /\ sigData = Undefined
    /\ sigProvided = Undefined
    /\ sigResult = Return(FALSE)

\* no function call and no scan under way
NoCall == [fn |-> "none"]
NoScan == [fn |-> "none"]
FnIdle ==
    /\ call = NoCall
    /\ ret = Return(FALSE)
    /\ scan = NoScan

----------------------------------------------------------------------------
(* Module load: the constructors of the two services *)

\* the variables of process.env that the constructors test
AuthEnvVars == <<"API_SECRET_KEY", "ADMIN_PASSWORD_HASH">>
FirebaseEnvVars ==
    <<"FIREBASE_PROJECT_ID", "FIREBASE_PRIVATE_KEY_ID", "FIREBASE_PRIVATE_KEY",
      "FIREBASE_CLIENT_EMAIL", "FIREBASE_CLIENT_ID">>
Range(seq) == {seq[i] : i \in 1..Len(seq)}
RequiredEnvVars == Range(AuthEnvVars) \cup Range(FirebaseEnvVars)

\* set: the variables that are set (and not empty); sdk: initializeApp,
\* credential.cert and firestore() accept the configuration
FullEnvironment == [set |-> RequiredEnvVars, sdk |-> TRUE]

\* the environments the process is started in: complete, one variable
\* missing, or complete with credentials the SDK refuses
Environments ==
    {FullEnvironment, [set |-> RequiredEnvVars, sdk |-> FALSE]}
        \cup {[set |-> RequiredEnvVars \ {v}, sdk |-> TRUE] : v \in RequiredEnvVars}

\* new AuthService()
AuthServiceConstructor(e) ==
    IF \E v \in Range(AuthEnvVars) : v \notin e.set
    THEN Throw("Error") ELSE Return(TRUE)

\* init() logging the failure and going on without rethrowing it
FirebaseInit_Swallow(e) == Return(e.sdk /\ Range(FirebaseEnvVars) \subseteq e.set)

\* new FirebaseService(): init(), which returns with initialized = true or
\* rethrows what it caught
FirebaseInit(e) ==
    IF \E v \in Range(FirebaseEnvVars) : v \notin e.set
    THEN Throw("Error")
    ELSE IF ~e.sdk THEN Throw("Error")
    ELSE Return(TRUE)

\* this.initialized once the module has loaded
Initialized(e) == FirebaseInit(e).kind = "return" /\ FirebaseInit(e).v

\* the entry point runs to app.listen: both require() return, and every
\* route is registered with handlers that are functions (part_001 passes
\* authService.verifyRequest, which AuthService does not define, to
\* app.post, and registering an undefined handler throws)
Loads(appId, e) ==
    /\ FirebaseInit(e).kind = "return"
    /\ AuthServiceConstructor(e).kind = "return"
    /\ appId # AppLegacy

EmptyStore == [u \in {} |-> 0]

\* the collection as earlier runs of the server can have left it: empty, or
\* holding a document that subscribe wrote on day 0, valid until day 1 or
\* until the day before day 0, or such a document renewed since
InitialStores ==
    LET fresh(d) == subscribe(EmptyStore, UserA, d, 0, TRUE).store
        read == renewSubscriptionRead(fresh(1), UserA, DefaultDays, 0, TRUE)
    IN  {EmptyStore, fresh(1), fresh(0 - 1),
         renewSubscriptionWrite(fresh(1), UserA, read.updateData, TRUE).store}

Init ==
    /\ env \in Environments
    /\ app \in Apps
    /\ phase = "loading"
    /\ now = StartTime
    /\ store \in InitialStores
    /\ pending = EmptyBag
    /\ last = NoExchange
    /\ scen = Scen0
    /\ ops = 0
    /\ unauthenticated = FALSE
    /\ SigIdle
    /\ FnIdle

\* module load and app.listen
Start ==
    /\ phase = "loading"
    /\ phase' = IF Loads(app, env) THEN "serving" ELSE "aborted"
    /\ UNCHANGED <<env, app, now, store, pending, last, scen, ops, unauthenticated>>
    /\ UNCHANGED sigVars
    /\ UNCHANGED fnVars

\* time passes
Tick ==
    /\ now < EndTime
    /\ now' = now + 1
    /\ UNCHANGED <<env, app, phase, store, pending, last, scen, ops, unauthenticated>>
    /\ UNCHANGED sigVars
    /\ UNCHANGED fnVars

Receiving == phase = "serving" /\ ops < MaxOps

\* the handler calls the store for this request
CallsStore(body) == Truthy(Get(body, "username"))

\* POST /api/verify
VerifyReq ==
    /\ Receiving
    /\ \E req \in Requests[now][app]["verify"], up \in BOOLEAN :
          LET body == req.body
              username == Get(body, "username")
          IN  /\ unauthenticated' =
                    (unauthenticated \/ (CallsStore(body) /\ ~req.accepted))
              /\ IF ~Truthy(username)
                 THEN /\ last' = Exchange("verify", username, BadRequest, NoResult,
                                          FALSE, 0, 0, NoDoc)
                      /\ scen' = scen
                 ELSE LET result == verifySubscription(store, username.v, now, up)
                          resp == RouteResponse(app, result, MsgValid,
                                                MsgHttpValid, TRUE)
                      IN  /\ last' = Exchange("verify", username, resp,
                                              result, TRUE, 0, 0, NoDoc)
                          /\ scen' = ScenStep(scen, "verify", username.v,
                                              result.message, resp.body, now, 0)
    /\ ops' = ops + 1
    /\ UNCHANGED <<env, app, phase, now, store, pending>>
    /\ UNCHANGED sigVars
    /\ UNCHANGED fnVars

\* POST /api/subscribe
SubscribeReq ==
    /\ Receiving
    /\ \E req \in Requests[now][app]["subscribe"], up \in BOOLEAN :
          LET body == req.body
              username == Get(body, "username")
              duration == SubscribeDuration(app, body)
          IN  /\ unauthenticated' =
                    (unauthenticated \/ (CallsStore(body) /\ ~req.accepted))
              /\ IF ~Truthy(username)
                 THEN /\ last' = Exchange("subscribe", username, BadRequest, NoResult,
                                          FALSE, 0, 0, NoDoc)
                      /\ UNCHANGED <<store, scen>>
                 ELSE LET r == subscribe(store, username.v, duration, now, up)
                          resp == RouteResponse(app, r.result, MsgUpdated,
                                                MsgHttpCreated, TRUE)
                      IN  /\ store' = r.store
                          /\ last' = Exchange("subscribe", username, resp,
                                              r.result, TRUE, duration, 0,
                                              DocOf(store, username.v))
                          /\ scen' = ScenStep(scen, "subscribe", username.v,
                                              r.result.message, resp.body, now,
                                              duration)
    /\ ops' = ops + 1
    /\ UNCHANGED <<env, app, phase, now, pending>>
    /\ UNCHANGED sigVars
    /\ UNCHANGED fnVars

\* POST /api/renew, up to the await of docRef.update
RenewReq ==
    /\ Receiving
    /\ BagCardinality(pending) < MaxInflight
    /\ \E req \in Requests[now][app]["renew"], up \in BOOLEAN :
          LET body == req.body
              username == Get(body, "username")
              duration == RenewDuration(app, body)
          IN  /\ unauthenticated' =
                    (unauthenticated \/ (CallsStore(body) /\ ~req.accepted))
              /\ IF ~Truthy(username)
                 THEN /\ last' = Exchange("renew", username, BadRequest, NoResult,
                                          FALSE, 0, 0, NoDoc)
                      /\ UNCHANGED <<pending, scen>>
                 ELSE LET r == renewSubscriptionRead(store, username.v, duration,
                                                     now, up)
                      IN  IF r.done
                          THEN /\ last' = Exchange("renew", username,
                                              RouteResponse(app, r.result, MsgRenewed,
                                                            MsgHttpRenewed, TRUE),
                                              r.result, TRUE, duration, 0, NoDoc)
                               /\ pending' = pending
                               /\ scen' = ScenStep(scen, "renewRead", username.v,
                                                   r.result.message, last.body,
                                                   now, duration)
                          ELSE /\ pending' = pending (+) SetToBag({Suspended("renew",
                                                  username.v, duration,
                                                  r.expires, r.updateData)})
                               /\ last' = last
                               /\ scen' = ScenStep(scen, "renewRead", username.v,
                                                   "", last.body, now, duration)
    /\ ops' = ops + 1
    /\ UNCHANGED <<env, app, phase, now, store>>
    /\ UNCHANGED sigVars
    /\ UNCHANGED fnVars

\* POST /api/renew, from docRef.update on
RenewWrite ==
    /\ phase = "serving"
    /\ \E h \in BagToSet(pending), up \in BOOLEAN :
          /\ h.op = "renew"
          /\ LET r == renewSubscriptionWrite(store, h.user, h.updateData, up)
                 resp == RouteResponse(app, r.result, MsgRenewed, MsgHttpRenewed, TRUE)
             IN  /\ store' = r.store
                 /\ last' = Exchange("renew", Str(h.user), resp, r.result,
                                     TRUE, h.duration, h.snap,
                                     DocOf(store, h.user))
                 /\ scen' = ScenStep(scen, "renew", h.user, r.result.message,
                                     resp.body, now, h.duration)
          /\ pending' = pending (-) SetToBag({h})
    /\ UNCHANGED <<env, app, phase, now, ops, unauthenticated>>
    /\ UNCHANGED sigVars
    /\ UNCHANGED fnVars

\* POST /api/cancel, up to the await of docRef.delete
CancelReq ==
    /\ Receiving
    /\ BagCardinality(pending) < MaxInflight
    /\ \E req \in Requests[now][app]["cancel"], up \in BOOLEAN :
          LET body == req.body
              username == Get(body, "username")
          IN  /\ unauthenticated' =
                    (unauthenticated \/ (CallsStore(body) /\ ~req.accepted))
              /\ IF ~Truthy(username)
                 THEN /\ last' = Exchange("cancel", username, BadRequest, NoResult,
                                          FALSE, 0, 0, NoDoc)
                      /\ UNCHANGED <<pending, scen>>
                 ELSE LET r == cancelSubscriptionRead(store, username.v, up)
                      IN  IF r.done
                          THEN /\ last' = Exchange("cancel", username,
                                              RouteResponse(app, r.result, MsgCancelled,
                                                            MsgHttpCancelled, FALSE),
                                              r.result, TRUE, 0, 0, NoDoc)
                               /\ pending' = pending
                               /\ scen' = ScenStep(scen, "cancel", username.v,
                                                   r.result.message, last.body, now, 0)
                          ELSE /\ pending' = pending (+) SetToBag({Suspended("cancel",
                                                  username.v, 0, 0, NoUpdate)})
                               /\ last' = last
                               /\ scen' = ScenStep(scen, "cancelRead", username.v,
                                                   "", last.body, now, 0)
    /\ ops' = ops + 1
    /\ UNCHANGED <<env, app, phase, now, store>>
    /\ UNCHANGED sigVars
    /\ UNCHANGED fnVars

\* POST /api/cancel, from docRef.delete on
CancelDelete ==
    /\ phase = "serving"
    /\ \E h \in BagToSet(pending), up \in BOOLEAN :
          /\ h.op = "cancel"
          /\ LET r == cancelSubscriptionDelete(store, h.user, up)
                 resp == RouteResponse(app, r.result, MsgCancelled,
                                       MsgHttpCancelled, FALSE)
             IN  /\ store' = r.store
                 /\ last' = Exchange("cancel", Str(h.user), resp, r.result,
                                     TRUE, 0, 0, DocOf(store, h.user))
                 /\ scen' = ScenStep(scen, "cancel", h.user, r.result.message,
                                     resp.body, now, 0)
          /\ pending' = pending (-) SetToBag({h})
    /\ UNCHANGED <<env, app, phase, now, ops, unauthenticated>>
    /\ UNCHANGED sigVars
    /\ UNCHANGED fnVars

Next ==
    \/ Start
    \/ Tick
    \/ VerifyReq
    \/ SubscribeReq
    \/ RenewReq
    \/ RenewWrite
    \/ CancelReq
    \/ CancelDelete

Spec == Init /\ [][Next]_vars

----------------------------------------------------------------------------
(* The authenticator on its own: verifySignature applied to a payload and a
   provided signature value *)

UpperHex == <<"A", "B", "C", "D", "E", "F">>
HexChars == {HexDigits[i] : i \in 1..Len(HexDigits)} \cup {UpperHex[i] : i \in 1..Len(UpperHex)}

\* the payloads: flat and nested maps, with and without a signature field,
\* the same fields in two insertion orders, and no payload at all
SigPayloads ==
    {Obj(<<Entry("username", Str(UserA)), Entry("timestamp", Num(12))>>),
     Obj(<<Entry("timestamp", Num(12)), Entry("username", Str(UserA))>>),
     Obj(<<Entry("username", Str(UserB)), Entry("timestamp", Num(12))>>),
     Obj(<<Entry("username", Str(UserA)), Entry("timestamp", Num(13)),
           Entry("signature", Str(<<"a", "b">>))>>),
     Obj(<<Entry("username", Str(UserA)), Entry("days", Num(30)),
           Entry("meta", Obj(<<Entry("id", Num(1))>>))>>),
     Obj(<<Entry("username", Str(UserA)), Entry("days", Num(30)),
           Entry("meta", Obj(<<Entry("id", Num(2))>>))>>),
     Obj(<<>>),
     Null,
     Undefined}

\* s with its last character replaced by c
WithLast(s, c) == [i \in 1..Len(s) |-> IF i = Len(s) THEN c ELSE s[i]]

\* the provided values tried against a payload whose signature is sig: the
\* signature, the signature with another last character, its prefixes, the
\* signature followed by more characters, the signatures of other payloads,
\* and values that are not strings
ProvidedFor(sig) ==
    {Str(sig)}
    \cup {Str(WithLast(sig, c)) : c \in HexChars \cup {"g"}}
    \cup {Str(SubSeq(sig, 1, n)) : n \in 0..(Len(sig) - 1)}
    \cup {Str(sig \o x) : x \in {<<"0">>, <<"g">>, <<"0", "0">>, <<"g", "g">>}}
    \cup {generateSignature(d).v : d \in {p \in SigPayloads : p.t = "object"}}
    \cup {Undefined, Null, Num(1), Arr(HexDecodeFrom(sig, 1)), Arr(<<>>)}

SigInputs ==
    {[data |-> d, provided |-> x] :
        d \in SigPayloads,
        x \in UNION {ProvidedFor(generateSignature(p).v.v) :
                        p \in {q \in SigPayloads : q.t = "object"}}}

ServerIdle ==
    /\ env = FullEnvironment
    /\ app = AppRoot
    /\ phase = "loading"
    /\ now = StartTime
    /\ store = EmptyStore
    /\ pending = EmptyBag
    /\ last = NoExchange
    /\ scen = Scen0
    /\ ops = 0
    /\ unauthenticated = FALSE

SigInit ==
    /\ ServerIdle
    /\ sigPhase = "input"
    /\ \E in \in SigInputs : sigData = in.data /\ sigProvided = in.provided
    /\ sigResult = Return(FALSE)
    /\ FnIdle

\* the call verifySignature(data, providedSignature)
SigVerify ==
    /\ sigPhase = "input"
    /\ sigResult' = verifySignature(sigData, sigProvided)
    /\ sigPhase' = "done"
    /\ UNCHANGED <<sigData, sigProvided>>
    /\ UNCHANGED srvVars
    /\ UNCHANGED fnVars

SigNext == SigVerify

SpecSig == SigInit /\ [][SigNext]_vars

\* the signature of the payload under test, <<>> when sign throws
SigOf(data) ==
    IF generateSignature(data).kind = "return"
    THEN generateSignature(data).v.v ELSE <<>>

----------------------------------------------------------------------------
(* The admin routes: POST /api/admin/subscribe of src/server.js and
   src/unnamed/part_002, POST /api/admin/rainbowg/subscribe of part_002.
   They share nothing with the client routes but the collection, and are
   run here from the same initial states without client requests. *)

\* process.env.ADMIN_PASSWORD_HASH: the digest of the admin password
AdminPassword == <<"p", "w">>
AdminPasswordHash == generatePasswordHash(Str(AdminPassword)).v

\* String.prototype.toLowerCase on the characters of the model
LowerCase(s) ==
    [i \in 1..Len(s) |->
        IF \E n \in 1..Len(UpperHex) : UpperHex[n] = s[i]
        THEN HexDigits[10 + CHOOSE n \in 1..Len(UpperHex) : UpperHex[n] = s[i]]
        ELSE s[i]]

\* body('username').isEmail(): local@domain with a top-level domain of two
\* letters or more
isEmail(x) ==
    /\ x.t = "string"
    /\ \E i, j \in 1..Len(x.v) :
          /\ x.v[i] = "@"
          /\ x.v[j] = "."
          /\ 1 < i /\ i + 1 < j /\ j + 1 < Len(x.v)
          /\ \A n \in 1..Len(x.v) : n # i => x.v[n] \notin {"@", " "}
          /\ \A n \in (j + 1)..Len(x.v) : x.v[n] # "." /\ HexVal(x.v[n]) \notin 0..9

\* .normalizeEmail(): the address in lower case
normalizeEmail(x) == Str(LowerCase(x.v))

\* body('duration').isInt({ min: 1, max: 3650 }), on a number or a string
isIntInRange(x) ==
    \/ x.t = "number" /\ x.v \in 1..3650
    \/ /\ x.t = "string"
       /\ x.v # <<>>
       /\ \A i \in 1..Len(x.v) : HexVal(x.v[i]) \in 0..9
       /\ DigitsToNat(x.v, 0) \in 1..3650

\* body('adminPassword').isLength({ min: 1 }), on the value as a string
isLengthMin1(x) ==
    \/ x.t = "string" /\ Len(x.v) >= 1
    \/ x.t = "number"

\* validationResult(req).isEmpty()
AdminInputValid(body) ==
    /\ isEmail(Get(body, "username"))
    /\ isIntInRange(Get(body, "duration"))
    /\ isLengthMin1(Get(body, "adminPassword"))

AdminInvalidInput == [status |-> 400, body |-> [error |-> "Invalid input"]]
AdminUnauthorized == [status |-> 401, body |-> [error |-> "Invalid admin credentials"]]
AdminServerError == [status |-> 500, body |-> [error |-> "Internal server error"]]

\* the bodies of the admin requests: those that pass the validators, with
\* the admin password, another password or a number; and one body for each
\* way of failing them (a username that is no email address for isEmail,
\* no duration, a duration out of range, no password, an empty password)
UserC == <<"u", "@", "v", ".", "i", "o">>
AdminBodies ==
    LET body(u, d, pw) == <<Entry("username", Str(u))>> \o d \o pw
        days(n) == <<Entry("duration", Num(n))>>
        secret(x) == <<Entry("adminPassword", x)>>
        right == secret(Str(AdminPassword))
    IN  {body(u, days(n), secret(x)) :
            u \in {UserC, <<"C">> \o Tail(UserC)},
            n \in {1, DefaultDays},
            x \in {Str(AdminPassword), Str(<<"p", "x">>), Num(1)}}
        \cup {body(UserA, days(1), right),
              body(UserC, <<>>, right),
              body(UserC, days(0), right),
              body(UserC, days(1), <<>>),
              body(UserC, days(1), secret(Str(<<>>)))}

AdminRoutes == {"/api/admin/subscribe", "/api/admin/rainbowg/subscribe"}

\* POST /api/admin/subscribe and POST /api/admin/rainbowg/subscribe; the
\* request is recorded in call.  firebaseService.subscribeRainbowG is not a
\* function of FirebaseService: calling it throws into the catch of the route
AdminSubscribeReq ==
    /\ Receiving
    /\ \E route \in AdminRoutes, body \in AdminBodies, up \in BOOLEAN :
          /\ route = "/api/admin/rainbowg/subscribe" => app = AppRoot
          /\ call' = [fn |-> route, body |-> body]
          /\ IF ~AdminInputValid(body)
             THEN /\ last' = Exchange(route, Get(body, "username"), AdminInvalidInput,
                                      NoResult, FALSE, 0, 0, NoDoc)
                  /\ store' = store
             ELSE LET username == normalizeEmail(Get(body, "username"))
                      duration == Get(body, "duration").v
                  IN  IF ~verifyAdminPassword(Get(body, "adminPassword"),
                                              AdminPasswordHash).v
                      THEN /\ last' = Exchange(route, username, AdminUnauthorized,
                                               NoResult, FALSE, 0, 0, NoDoc)
                           /\ store' = store
                      ELSE IF route = "/api/admin/rainbowg/subscribe"
                      THEN /\ last' = Exchange(route, username, AdminServerError,
                                               NoResult, FALSE, 0, 0, NoDoc)
                           /\ store' = store
                      ELSE LET r == subscribe(store, username.v, duration, now, up)
                           IN  /\ store' = r.store
                               /\ last' = Exchange(route, username,
                                                   [status |-> 200, body |-> r.result],
                                                   r.result, TRUE, duration, 0,
                                                   DocOf(store, username.v))
    /\ ops' = ops + 1
    /\ UNCHANGED <<env, app, phase, now, pending, scen, unauthenticated>>
    /\ UNCHANGED sigVars
    /\ UNCHANGED <<ret, scan>>

AdminNext ==
    \/ Start
    \/ Tick
    \/ AdminSubscribeReq

SpecAdmin == Init /\ [][AdminNext]_vars

----------------------------------------------------------------------------
(* The functions of AuthService on their own: one call, its arguments drawn
   from the sets below *)

\* the call has not returned yet
NotReturned == [kind |-> "pending", v |-> FALSE]

\* the payloads given to generateSignature: those given to verifySignature,
\* and one whose nested map has two of the top-level names as its keys
SignPayloads ==
    {p \in SigPayloads : p.t = "object"}
    \cup {Obj(<<Entry("username", Str(UserA)),
                Entry("meta", Obj(<<Entry("username", Str(UserB)),
                                    Entry("timestamp", Num(1))>>)),
                Entry("timestamp", Num(12))>>)}

SignCalls == {[fn |-> "generateSignature", data |-> p] : p \in SignPayloads}

\* Date.now() at the call of validateRequestData
CallNowMs == 4 * ReplayWindowMs

\* data.timestamp: absent, zero, at a distance from Date.now() around the
\* replay window on either side, or a string
TimestampOffsets ==
    {0, 1, ReplayWindowMs - 1, ReplayWindowMs, ReplayWindowMs + 1, 2 * ReplayWindowMs}
TimestampEntries ==
    {<<>>, <<Entry("timestamp", Num(0))>>,
     <<Entry("timestamp", Str(NumberToString(CallNowMs - ReplayWindowMs - 1)))>>,
     <<Entry("timestamp", Str(<<"a", "b">>))>>}
    \cup {<<Entry("timestamp", Num(CallNowMs + d))>> : d \in TimestampOffsets}
    \cup {<<Entry("timestamp", Num(CallNowMs - d))>> : d \in TimestampOffsets}

\* data.username: absent, empty, an email address, not an email address
EnvelopeUsernames ==
    {<<>>, <<Entry("username", Str(<<>>))>>, <<Entry("username", Str(UserA))>>,
     <<Entry("username", Str(<<"a", "b">>))>>, <<Entry("username", Str(<<"a", "@", "b">>))>>}

\* data.signature: absent, empty, present
EnvelopeSignatures ==
    {<<>>, <<Entry("signature", Str(<<>>))>>, <<Entry("signature", Str(<<"a", "b">>))>>}

ValidateCalls ==
    {[fn |-> "validateRequestData", data |-> u \o t \o g, now |-> CallNowMs] :
        u \in EnvelopeUsernames, t \in TimestampEntries, g \in EnvelopeSignatures}

\* toUpperCase on a hex string
UpperCaseHex(s) ==
    [i \in 1..Len(s) |->
        IF HexVal(s[i]) \in 10..15 THEN UpperHex[HexVal(s[i]) - 9] ELSE s[i]]

\* ADMIN_PASSWORD_HASH as the operator can have set it: the digest of the
\* admin password, the same in upper case, with characters after it, cut
\* short, changed in its last character, or no hex at all
StoredDigests ==
    LET digest == AdminPasswordHash.v
    IN  {digest, UpperCaseHex(digest), digest \o <<"0">>, digest \o <<"g", "g">>,
         SubSeq(digest, 1, Len(digest) - 2), SubSeq(digest, 1, Len(digest) - 1),
         <<"z", "z">>, generatePasswordHash(Str(<<"p", "x">>)).v.v}
        \cup {WithLast(digest, c) : c \in {"0", "1", "g"}}

\* the password argument: the admin password, others, and values that are
\* no strings
CandidatePasswords ==
    {Str(AdminPassword), Str(<<"p", "x">>), Str(<<"p">>), Str(<<>>),
     Undefined, Null, Num(1)}

AdminVerifyCalls ==
    {[fn |-> "verifyAdminPassword", password |-> pw, stored |-> d] :
        pw \in CandidatePasswords, d \in StoredDigests}

CallInputs == SignCalls \cup ValidateCalls \cup AdminVerifyCalls

CallInit ==
    /\ ServerIdle
    /\ SigIdle
    /\ scan = NoScan
    /\ call \in CallInputs
    /\ ret = NotReturned

Calling(fn) == call.fn = fn /\ ret.kind = "pending"

\* the call generateSignature(data)
SignCall ==
    /\ Calling("generateSignature")
    /\ ret' = generateSignature(call.data)
    /\ UNCHANGED <<call, scan>>
    /\ UNCHANGED srvVars
    /\ UNCHANGED sigVars

\* the call validateRequestData(data)
ValidateCall ==
    /\ Calling("validateRequestData")
    /\ ret' = Return(validateRequestData(call.data, call.now))
    /\ UNCHANGED <<call, scan>>
    /\ UNCHANGED srvVars
    /\ UNCHANGED sigVars

\* the call verifyAdminPassword(password) with ADMIN_PASSWORD_HASH = stored
AdminVerifyCall ==
    /\ Calling("verifyAdminPassword")
    /\ ret' = verifyAdminPassword(call.password, Str(call.stored))
    /\ UNCHANGED <<call, scan>>
    /\ UNCHANGED srvVars
    /\ UNCHANGED sigVars

CallNext ==
    \/ SignCall
    \/ ValidateCall
    \/ AdminVerifyCall

SpecCall == CallInit /\ [][CallNext]_vars

----------------------------------------------------------------------------
(* The scans of FirebaseService on their own: one call of
   getAllSubscriptions or getSubscriptionStats over a collection, the clock
   running while the callback of forEach visits the documents *)

MsgListed == "list: subscriptions listed"               \* part_000:203
MsgListError == "list: error"                           \* part_000:208
StatusExpired == "expired"                              \* part_000:197
StatusValid == "valid"                                  \* part_000:197

\* the collections scanned: any of the three users subscribed on day 0,
\* until the day before the process starts, until the day it starts or
\* until the day after
ScanUsers == <<UserA, UserC, UserB>>
ScanDurations == {0, 1, 2}
RECURSIVE StoresOver(_)
StoresOver(n) ==
    IF n = 0 THEN {EmptyStore}
    ELSE LET rest == StoresOver(n - 1)
         IN  rest \cup {subscribe(st, ScanUsers[n], d, 0, TRUE).store :
                            st \in rest, d \in ScanDurations}
ScanStores == StoresOver(Len(ScanUsers))

\* collection.get(): the documents in the order of their ids (the ids of
\* the model are ScanUsers, in that order)
RECURSIVE QueryDocs(_, _)
QueryDocs(st, n) ==
    IF n = 0 THEN << >>
    ELSE LET before == QueryDocs(st, n - 1)
             id == ScanUsers[n]
         IN  IF Exists(st, id)
             THEN Append(before, [id |-> id, data |-> st[id]])
             ELSE before

\* the callback of getAllSubscriptions for one document; nowT: new Date().
\* Every document of the model was written by subscribe and has a createdAt
getAllSubscriptionsEach(subscriptions, doc, nowT) ==
    Append(subscriptions,
           [username |-> doc.id,
            expires |-> doc.data.expires,
            status |-> IF IsExpired(nowT, doc.data.expires)
                       THEN StatusExpired ELSE StatusValid,
            createdAt |-> doc.data.createdAt])

\* the callback counts the document as active and as expired
getSubscriptionStatsEach_Both(stats, doc, nowT) ==
    [total |-> stats.total + 1,
     active |-> stats.active + 1,
     expired |-> stats.expired + 1]

\* the callback of getSubscriptionStats for one document; nowT: new Date()
getSubscriptionStatsEach(stats, doc, nowT) ==
    [total |-> stats.total + 1,
     active |-> IF IsExpired(nowT, doc.data.expires)
                THEN stats.active ELSE stats.active + 1,
     expired |-> IF IsExpired(nowT, doc.data.expires)
                 THEN stats.expired + 1 ELSE stats.expired]

\* what the catch of each scan returns
ScanFailure(fn) ==
    IF fn = "getAllSubscriptions" THEN [message |-> MsgListError] ELSE Null

\* what each scan returns after forEach
ScanResult(sc) ==
    IF sc.fn = "getAllSubscriptions"
    THEN [message |-> MsgListed, subscriptions |-> sc.subscriptions]
    ELSE sc.stats

ScanCalls == {[fn |-> "getAllSubscriptions"], [fn |-> "getSubscriptionStats"]}

\* the calls of verifySubscription, the third operation that only reads
VerifyCalls ==
    {[fn |-> "verifySubscription", username |-> ScanUsers[i]] :
        i \in 1..Len(ScanUsers)}

\* a get() that drops what it has read
StoreAfterGet_Purge(st) == EmptyStore

\* the collection after a get() of a document or of the collection
StoreAfterGet(st) == st

ScanInit ==
    /\ env = FullEnvironment
    /\ app = AppRoot
    /\ phase = "loading"
    /\ now = StartTime
    /\ store \in ScanStores
    /\ pending = EmptyBag
    /\ last = NoExchange
    /\ scen = Scen0
    /\ ops = 0
    /\ unauthenticated = FALSE
    /\ SigIdle
    /\ call \in ScanCalls \cup VerifyCalls
    /\ ret = NotReturned
    /\ scan = NoScan

Scanning == call \in ScanCalls /\ ret.kind = "pending" /\ scan # NoScan

\* the get() of the scan: the snapshot, or the failure that the catch turns
\* into the result (up: the service is initialized and get() resolves).
\* seen is an observation: the expiry and the class of each document visited
ScanGet ==
    /\ call \in ScanCalls
    /\ ret.kind = "pending"
    /\ scan = NoScan
    /\ \E up \in BOOLEAN :
          IF up
          THEN /\ scan' = [fn |-> call.fn,
                           docs |-> QueryDocs(store, Len(ScanUsers)),
                           i |-> 1,
                           subscriptions |-> << >>,
                           stats |-> [total |-> 0, active |-> 0, expired |-> 0],
                           seen |-> << >>]
               /\ ret' = ret
          ELSE /\ scan' = scan
               /\ ret' = Return(ScanFailure(call.fn))
    /\ store' = StoreAfterGet(store)
    /\ UNCHANGED <<env, app, phase, now, pending, last, scen, ops, unauthenticated>>
    /\ UNCHANGED call
    /\ UNCHANGED sigVars

\* one call of the forEach callback, which reads the clock
ScanEach ==
    /\ Scanning
    /\ scan.i <= Len(scan.docs)
    /\ LET doc == scan.docs[scan.i]
       IN  scan' = [scan EXCEPT
                       !.i = @ + 1,
                       !.subscriptions =
                           IF scan.fn = "getAllSubscriptions"
                           THEN getAllSubscriptionsEach(@, doc, now) ELSE @,
                       !.stats =
                           IF scan.fn = "getSubscriptionStats"
                           THEN getSubscriptionStatsEach(@, doc, now) ELSE @,
                       !.seen = Append(@, [expires |-> doc.data.expires,
                                           expired |-> IsExpired(now, doc.data.expires)])]
    /\ UNCHANGED <<call, ret>>
    /\ UNCHANGED srvVars
    /\ UNCHANGED sigVars

\* the return after forEach
ScanReturn ==
    /\ Scanning
    /\ scan.i > Len(scan.docs)
    /\ ret' = Return(ScanResult(scan))
    /\ UNCHANGED <<call, scan>>
    /\ UNCHANGED srvVars
    /\ UNCHANGED sigVars

\* the call verifySubscription(username); up: the get() succeeds
VerifyCall ==
    /\ call \in VerifyCalls
    /\ ret.kind = "pending"
    /\ \E up \in BOOLEAN :
          ret' = Return(verifySubscription(store, call.username, now, up))
    /\ store' = StoreAfterGet(store)
    /\ UNCHANGED <<env, app, phase, now, pending, last, scen, ops, unauthenticated>>
    /\ UNCHANGED <<call, scan>>
    /\ UNCHANGED sigVars

ScanNext ==
    \/ Tick
    \/ VerifyCall
    \/ ScanGet
    \/ ScanEach
    \/ ScanReturn

SpecScan == ScanInit /\ [][ScanNext]_vars

----------------------------------------------------------------------------
(* Properties of the server *)

\* a request handled to its response within one step
Answered(op) == ops' = ops + 1 /\ pending' = pending /\ last'.op = op

\* the service result that means the operation succeeded at the store
OkMessage(op) ==
    CASE op = "verify" -> MsgValid
      [] op = "subscribe" -> MsgUpdated
      [] op = "renew" -> MsgRenewed
      [] op = "cancel" -> MsgCancelled
      [] OTHER -> ""

\* the service result for a subject without a record
NotFoundMessage(op) == IF op = "renew" THEN MsgNoRenewTarget ELSE MsgNoCancelTarget

\* the last exchange is a renewal that the store accepted
RenewSucceeded == last.op = "renew" /\ last.result.message = MsgRenewed

\* C1: the store is called for a request only after the Request
\* Authenticator has accepted it (valid envelope, verified signature): no
\* handler has ever called the store for a request that fails or skips
\* authentication
C1_AuthBeforeStore == ~unauthenticated

\* C2: a Verify that finds a record whose expires is today's date answers
\* that the subscription is valid, with that expires, at every time of the
\* day; it answers expired only when expires is before today
C2_VerifyBoundary ==
    [][(/\ Answered("verify")
        /\ last'.touched
        /\ last'.result.message # MsgVerifyError
        /\ Exists(store, last'.user.v))
       => LET expires == store[last'.user.v].expires
          IN  /\ expires = ISODate(now)
                    => last'.result = [message |-> MsgValid, expires |-> expires]
              /\ last'.result.message = MsgExpired => expires < ISODate(now)]_vars

\* C3: a successful Renew(subject, N) of a record read with expires = D,
\* past or future, stores expires = D + N days and returns that date,
\* whatever today's date is
C3_RenewFromExpiry ==
    RenewSucceeded =>
        /\ store[last.user.v].expires = last.snap + last.duration
        /\ last.result.expires = last.snap + last.duration
        /\ last.body.success => last.body.expires = last.snap + last.duration

\* a renewal of a record that had expired has left it expired
C3_GraceRenewal ==
    /\ RenewSucceeded
    /\ last.body.success
    /\ last.snap < ISODate(now)
    /\ IsExpired(now, store[last.user.v].expires)

\* C4: in Subscribe(s, 30), Verify(s), Cancel(s), Verify(s) with nothing
\* else done on s in between, the first Verify answers success with
\* expires = today + 30 and the second the "no subscription" failure
C4_EndToEnd == (scen.st >= 2 => scen.ok1) /\ (scen.st = 4 => scen.ok2)

\* C5: the response of Verify, Subscribe, Renew and Cancel is
\* {success, message, expires?} and success is true exactly when the
\* operation succeeded at the store
C5_ResponseContract ==
    (last.op # "none" /\ last.touched) =>
        /\ {"success", "message"} \subseteq DOMAIN last.body
        /\ DOMAIN last.body \subseteq {"success", "message", "expires"}
        /\ last.body.success = (last.result.message = OkMessage(last.op))

\* C6: Renew and Cancel for a subject without a record answer the not-found
\* failure and leave every record as it was; a handler goes on to its write
\* only for a subject whose record it has read; an update that finds the
\* record gone creates none
C6_AbsentSubject ==
    [][/\ \A op \in {"renew", "cancel"} :
            (/\ Answered(op)
             /\ last'.touched
             /\ ~Exists(store, last'.user.v)
             /\ last'.result.message \notin {MsgRenewError, MsgCancelError})
            => /\ last'.result = [message |-> NotFoundMessage(op)]
               /\ last'.body = [success |-> FALSE, message |-> NotFoundMessage(op)]
               /\ store' = store
       /\ (ops' = ops + 1 /\ pending' # pending)
            => \A h \in BagToSet(pending') :
                  CopiesIn(h, pending') > CopiesIn(h, pending) => Exists(store, h.user)
       /\ (ops' = ops /\ pending' # pending /\ last'.op = "renew"
              /\ ~Exists(store, last'.user.v))
            => store' = store /\ ~last'.body.success]_vars

\* Renew or Cancel has answered not-found while another subject has a record
C6_NotFoundAnswered ==
    /\ last.op \in {"renew", "cancel"}
    /\ last.result.message = NotFoundMessage(last.op)
    /\ ~Exists(store, last.user.v)
    /\ store # EmptyStore

\* C7: a successful Subscribe(A, d) leaves for A exactly the record
\* {username, expires = today + d, createdAt, duration = d}, with no field of
\* the record it replaces (no renewedAt, no extension by earlier renewals),
\* and leaves the other records as they were
C7_SubscribeOverwrites ==
    [][(Answered("subscribe") /\ last'.result.message = MsgUpdated)
       => LET A == last'.user.v
          IN  /\ DOMAIN store' = DOMAIN store \cup {A}
              /\ DOMAIN store'[A] = {"username", "expires", "createdAt", "duration"}
              /\ store'[A].username = A
              /\ store'[A].expires = ISODate(now) + last'.duration
              /\ store'[A].duration = last'.duration
              /\ store'[A].createdAt = now
              /\ \A u \in DOMAIN store \ {A} : store'[u] = store[u]]_vars

\* Subscribe has replaced a record that renewals had extended
C7_ReplacedRenewed ==
    /\ last.op = "subscribe"
    /\ last.result.message = MsgUpdated
    /\ "renewedAt" \in DOMAIN last.prevDoc
    /\ last.prevDoc.expires # store[last.user.v].expires
    /\ "renewedAt" \notin DOMAIN store[last.user.v]

\* C8: a Renew whose read of expires = D was followed, before its own
\* write, by another write to the record stores D + its own duration and
\* reports success: the extension written in between is lost
C8_LostUpdate ==
    (/\ RenewSucceeded
     /\ "expires" \in DOMAIN last.prevDoc
     /\ last.prevDoc.expires # last.snap)
    => /\ store[last.user.v].expires = last.snap + last.duration
       /\ store[last.user.v].expires # last.prevDoc.expires + last.duration

\* two renewals that both read expires = D have both succeeded, and the
\* record holds D + M, not D + N + M
C8_BothSucceeded ==
    /\ RenewSucceeded
    /\ "renewedAt" \in DOMAIN last.prevDoc
    /\ last.prevDoc.expires = last.snap + last.prevDoc.lastRenewalDuration
    /\ last.prevDoc.lastRenewalDuration # 0
    /\ store[last.user.v].expires = last.snap + last.duration
    /\ store[last.user.v].expires
          # last.snap + last.prevDoc.lastRenewalDuration + last.duration

\* a suspended renewal has come back from its update()
RenewWritten == ops' = ops /\ pending' # pending /\ last'.op = "renew"

\* C23: Cancel is terminal under every interleaving.  While a subject has
\* no record (so from the delete of Cancel on), a record for it appears only
\* by a Subscribe for that subject; a Verify of it that the store answers
\* returns no-subscription; and a Renew of it fails and leaves it without a
\* record, also the Renew that read the record before the delete and
\* writes after it
C23_CancelTerminal ==
    [][/\ \A u \in DOMAIN store' \ DOMAIN store :
             Answered("subscribe") /\ last'.user = Str(u)
       /\ (/\ Answered("verify")
           /\ last'.touched
           /\ ~Exists(store, last'.user.v)
           /\ last'.result.message # MsgVerifyError)
            => last'.result = [message |-> MsgNoSubscription]
       /\ (/\ Answered("renew") \/ RenewWritten
           /\ last'.touched
           /\ ~Exists(store, last'.user.v))
            => /\ last'.result.message \in {MsgNoRenewTarget, MsgRenewError}
               /\ ~Exists(store', last'.user.v)]_vars

\* a Renew that had read the record has written after the record was
\* deleted, and was refused
C23_LateWriteRefused ==
    /\ last.op = "renew"
    /\ last.touched
    /\ last.snap # 0
    /\ last.prevDoc = NoDoc
    /\ last.result = [message |-> MsgRenewError]
    /\ ~Exists(store, last.user.v)

\* the last exchange is a successful renewal that followed another renewal
\* of the record, with nothing written between its read and its write
RenewedAgain ==
    /\ RenewSucceeded
    /\ "renewedAt" \in DOMAIN last.prevDoc
    /\ last.prevDoc.expires = last.snap

\* C24: renewals applied one after another stack.  A record renewed by N to
\* D + N and then renewed by M holds D + N + M, and the two renewals run one
\* after the other on the record with expires = D leave that same expires
\* in either order
C24_RenewalsStack ==
    RenewedAgain =>
        LET u == last.user.v
            N == last.prevDoc.lastRenewalDuration
            M == last.duration
            D == last.prevDoc.expires - N
            before == [store EXCEPT ![u].expires = D]
            nm == renewSubscription(renewSubscription(before, u, N, now), u, M, now)
            mn == renewSubscription(renewSubscription(before, u, M, now), u, N, now)
        IN  /\ store[u].expires = D + N + M
            /\ nm[u].expires = D + N + M
            /\ mn[u].expires = D + N + M

\* a record renewed by one duration has been renewed again by another
C24_RenewedTwice ==
    /\ RenewedAgain
    /\ last.prevDoc.lastRenewalDuration # last.duration
    /\ store[last.user.v].expires
          = last.snap + last.duration

\* the fields renewSubscription passes to update()
RenewalFields == {"expires", "renewedAt", "lastRenewalDuration"}

\* C25: Renew changes only the expiry, the renewal timestamp and the renewal
\* duration of the record of its subject.  A successful renewal leaves
\* every other field of that record (createdAt, username) and every other
\* record as they were, and sets renewedAt to the time the renewal took
\* when it computed the new expiry; a renewal that fails, and the part of
\* a renewal before its write, change nothing
C25_RenewFrame ==
    [][/\ (RenewWritten /\ last'.result.message = MsgRenewed)
            => LET u == last'.user.v
               IN  /\ DOMAIN store' = DOMAIN store
                   /\ \A v \in DOMAIN store \ {u} : store'[v] = store[v]
                   /\ DOMAIN store'[u] = DOMAIN store[u] \cup RenewalFields
                   /\ \A f \in DOMAIN store[u] \ RenewalFields :
                         store'[u][f] = store[u][f]
                   /\ store'[u].lastRenewalDuration = last'.duration
                   /\ \E h \in BagToSet(pending) :
                         /\ CopiesIn(h, pending') < CopiesIn(h, pending)
                         /\ store'[u].renewedAt = h.updateData.renewedAt
       /\ (ops' = ops + 1 /\ pending' # pending)
            => \A h \in BagToSet(pending') :
                  (CopiesIn(h, pending') > CopiesIn(h, pending) /\ h.op = "renew")
                      => h.updateData.renewedAt = now
       /\ ((Answered("renew") \/ RenewWritten)
              /\ last'.result.message # MsgRenewed)
            => store' = store
       /\ (ops' = ops + 1 /\ pending' # pending) => store' = store]_vars

\* a renewal has extended the record of one subject while another subject
\* has a record, some time after it read the record
C25_RenewedBesideAnother ==
    /\ RenewSucceeded
    /\ DOMAIN store # {last.user.v}
    /\ store[last.user.v].renewedAt < now
    /\ store[last.user.v].createdAt = last.prevDoc.createdAt
    /\ store[last.user.v].expires # last.prevDoc.expires

----------------------------------------------------------------------------
(* Properties of the authenticator *)

\* verifySignature has been called on a payload that sign accepts
SigChecked == sigPhase = "done" /\ SigOf(sigData) # <<>>

\* the provided value is the signature of the payload with its last
\* character replaced by c
LastReplacedBy(c) ==
    /\ c # SigOf(sigData)[Len(SigOf(sigData))]
    /\ sigProvided = Str(WithLast(SigOf(sigData), c))

\* the value of the last character of the payload's signature
LastHexVal == HexVal(SigOf(sigData)[Len(SigOf(sigData))])

\* C9 as stated: verify(P, sign(P)) is true, and verify(P, s') is false
\* when s' is sign(P) with its last hex character changed to a different
\* hex character
C9_RoundTripAnyHexChar ==
    SigChecked =>
        /\ sigProvided = Str(SigOf(sigData)) => sigResult = Return(TRUE)
        /\ \A c \in HexChars : LastReplacedBy(c) => sigResult = Return(FALSE)

\* C9: verify(P, sign(P)) is true, and verify(P, s') is false when s' is
\* sign(P) with its last hex character changed to a hex character of
\* another value; the same digit in the other case still verifies
C9_RoundTrip ==
    SigChecked =>
        /\ sigProvided = Str(SigOf(sigData)) => sigResult = Return(TRUE)
        /\ \A c \in HexChars :
              LastReplacedBy(c) => sigResult = Return(HexVal(c) = LastHexVal)

\* a signature whose last character was changed to another hex value has
\* been rejected
C9_FlippedRejected ==
    /\ SigChecked
    /\ \E c \in HexChars : LastReplacedBy(c) /\ HexVal(c) # LastHexVal
    /\ sigResult = Return(FALSE)

\* the provided value is missing, not a string, of the wrong length, or
\* holds a character that is not a hex digit
Malformed(x) ==
    \/ x.t # "string"
    \/ Len(x.v) # 2 * DigestBytes
    \/ \E i \in 1..Len(x.v) : HexVal(x.v[i]) < 0

\* C10: verify never throws; for every payload and every provided value
\* that is missing, not a string, of the wrong or an odd length, or not
\* hex, it returns false
C10_MalformedRejected ==
    sigPhase = "done" =>
        /\ sigResult.kind = "return"
        /\ Malformed(sigProvided) => sigResult = Return(FALSE)

----------------------------------------------------------------------------
(* Properties of generateSignature *)

\* generateSignature has returned the signature of call.data
SignReturned == call.fn = "generateSignature" /\ ret.kind = "return"

\* the orders in which n fields can have been inserted
Orders(n) == {f \in [1..n -> 1..n] : \A i, j \in 1..n : i # j => f[i] # f[j]}

\* the values that differ from x only in the insertion order of the fields
\* of x and of the maps nested in it
RECURSIVE Reorderings(_)
Reorderings(x) ==
    IF x.t # "object" THEN {x}
    ELSE LET n == Len(x.v)
             inner == {e \in [1..n -> UNION {{Entry(x.v[i].k, r) :
                                                 r \in Reorderings(x.v[i].v)} :
                                             i \in 1..n}] :
                          \A i \in 1..n : e[i].k = x.v[i].k}
         IN  {Obj([i \in 1..n |-> e[f[i]]]) : e \in inner, f \in Orders(n)}

\* C11: sign does not depend on the order in which the fields of the
\* payload, or of a map nested in it, were inserted: every reordering of the
\* payload has the signature that sign returned
C11_OrderIndependent ==
    SignReturned => \A q \in Reorderings(call.data) : generateSignature(q) = ret

\* sign has returned for a payload of three fields, one a nested map of two
C11_ReorderedSigned ==
    /\ SignReturned
    /\ Len(call.data.v) = 3
    /\ \E i \in 1..3 : call.data.v[i].v.t = "object" /\ Len(call.data.v[i].v.v) = 2
    /\ Cardinality(Reorderings(call.data)) = 12

\* the fields of a payload other than signature, in their order
WithoutSignature(p) == SelectSeq(p, LAMBDA e : e.k # "signature")

\* the payload p with the field signature: X inserted after its first i fields
WithSignature(p, X, i) ==
    SubSeq(p, 1, i) \o <<Entry("signature", X)>> \o SubSeq(p, i + 1, Len(p))

SignatureValues ==
    {Str(<<>>), Str(<<"a", "b">>), Str(<<"0", "7", "d", "0">>), Num(1), Null, Obj(<<>>),
     Obj(<<Entry("username", Str(UserB))>>)}

\* C12: sign ignores the signature field: the signature returned for a
\* payload is that of the payload without its signature field, and that of
\* the payload with signature: X added, for every X and wherever it is added
C12_SignatureExcluded ==
    SignReturned =>
        LET P == WithoutSignature(call.data.v)
        IN  /\ generateSignature(Obj(P)) = ret
            /\ \A X \in SignatureValues, i \in 0..Len(P) :
                  generateSignature(Obj(WithSignature(P, X, i))) = ret

\* sign has returned for a payload that has a signature field and others
C12_SignedWithSignature ==
    /\ SignReturned
    /\ Get(call.data.v, "signature") # Undefined
    /\ Len(WithoutSignature(call.data.v)) = 2

----------------------------------------------------------------------------
(* Properties of the signed content *)

\* the string generateSignature gives to hmac.update for the payload
MessageOf(data) ==
    JSONstringify(OmitSignature(data.v), SortKeys(ObjectKeys(OmitSignature(data.v))))

\* x and y are the same value, maps being compared field by field whatever
\* the order of their fields
RECURSIVE SameValue(_, _)
SameValue(x, y) ==
    /\ x.t = y.t
    /\ IF x.t = "object"
       THEN /\ {x.v[i].k : i \in 1..Len(x.v)} = {y.v[i].k : i \in 1..Len(y.v)}
            /\ \A i \in 1..Len(x.v) : SameValue(x.v[i].v, Get(y.v, x.v[i].k))
       ELSE x.v = y.v

\* the payloads differ in the value of a field other than signature
DifferInContent(p, q) ==
    ~SameValue(Obj(WithoutSignature(p.v)), Obj(WithoutSignature(q.v)))

\* C13: the signature covers every field other than signature: when P and
\* P' differ in the value of such a field, also one inside a nested map
\* whose keys are not top-level names, their signed strings differ and
\* verify(P', sign(P)) is false
C13_EveryFieldSigned ==
    SigChecked =>
        \A P \in {p \in SigPayloads : p.t = "object"} :
            (DifferInContent(P, sigData) /\ sigProvided = Str(SigOf(P)))
            => /\ MessageOf(P) # MessageOf(sigData)
               /\ sigResult = Return(FALSE)

----------------------------------------------------------------------------
(* Properties of validateRequestData *)

\* validateRequestData has returned
Validated == call.fn = "validateRequestData" /\ ret.kind = "return"

\* the errors reported, as a set
ErrorsReported == {ret.v.errors[i] : i \in 1..Len(ret.v.errors)}

\* the timestamp of the payload is a number other than zero
NumberTimestamp ==
    /\ Get(call.data, "timestamp").t = "number"
    /\ Get(call.data, "timestamp").v # 0

\* the distance of the timestamp from the current time
TimestampDistance ==
    IF Get(call.data, "timestamp").v > call.now
    THEN Get(call.data, "timestamp").v - call.now
    ELSE call.now - Get(call.data, "timestamp").v

\* C14: the replay window holds in both directions: a timestamp more than
\* 300000 ms before or after the current time makes the payload invalid,
\* with the timestamp error; a timestamp at most 300000 ms away in either
\* direction raises no timestamp error
C14_ReplayWindow ==
    (Validated /\ NumberTimestamp) =>
        IF TimestampDistance > 300000
        THEN ~ret.v.isValid /\ "Request timestamp is too old" \in ErrorsReported
        ELSE "Request timestamp is too old" \notin ErrorsReported

\* a payload otherwise valid was rejected for a timestamp 300001 ms ahead
C14_FutureRejected ==
    /\ Validated
    /\ NumberTimestamp
    /\ Get(call.data, "timestamp").v = call.now + 300001
    /\ ret.v = [isValid |-> FALSE, errors |-> <<"Request timestamp is too old">>]

\* the messages of the checks the payload violates: subject, timestamp or
\* signature missing (absent, empty or zero), timestamp outside the window,
\* subject not shaped as an email address
ViolationsOf(data, nowMs) ==
    LET username == Get(data, "username")
        timestamp == Get(data, "timestamp")
    IN  {e \in {"Username is required", "Timestamp is required",
                "Signature is required", "Request timestamp is too old",
                "Invalid email format"} :
            CASE e = "Username is required" -> ~Truthy(username)
              [] e = "Timestamp is required" -> ~Truthy(timestamp)
              [] e = "Signature is required" -> ~Truthy(Get(data, "signature"))
              [] e = "Request timestamp is too old" ->
                    /\ Truthy(timestamp)
                    /\ ToNumber(timestamp).t = "number"
                    /\ \/ ToNumber(timestamp).v - nowMs > 300000
                       \/ nowMs - ToNumber(timestamp).v > 300000
              [] OTHER ->
                    /\ Truthy(username)
                    /\ ~(username.t = "string" /\ isValidEmail(username.v))}

\* C15: validateRequestData reports every violation, not only the first:
\* the errors list holds exactly one entry for each violated check, and
\* isValid is true exactly when the list is empty
C15_AccumulatesAll ==
    Validated =>
        /\ ErrorsReported = ViolationsOf(call.data, call.now)
        /\ Len(ret.v.errors) = Cardinality(ViolationsOf(call.data, call.now))
        /\ ret.v.isValid = (ret.v.errors = <<>>)

\* three violations were reported for one payload
C15_ThreeReported ==
    /\ Validated
    /\ ret.v = [isValid |-> FALSE,
                errors |-> <<"Signature is required", "Request timestamp is too old",
                             "Invalid email format">>]

----------------------------------------------------------------------------
(* Properties of the admin routes *)

\* an admin request has just been answered
AdminAnswered == ops' = ops + 1 /\ last'.op \in AdminRoutes

\* the admin secret supplied with the request just answered is the one
\* whose digest is stored
SecretSupplied == Get(call'.body, "adminPassword") = Str(AdminPassword)

\* C16: an admin Subscribe request writes to the store only if the admin
\* secret it supplies is the one whose digest is stored; a request that
\* passes the input validation with another secret is answered 401
\* unauthorized and leaves the store unchanged
C16_AdminSecretRequired ==
    [][AdminAnswered =>
          /\ (store' # store \/ last'.touched) => SecretSupplied
          /\ (AdminInputValid(call'.body) /\ ~SecretSupplied)
                => /\ last'.status = 401
                   /\ last'.body = [error |-> "Invalid admin credentials"]
                   /\ store' = store]_vars

\* a valid admin request with a wrong secret was refused, and one with the
\* right secret has written a record
C16_RefusedAndWritten ==
    /\ last.op = "/api/admin/subscribe"
    /\ last.status = 401
    /\ Get(call.body, "adminPassword") = Str(<<"p", "x">>)
    /\ UserC \in DOMAIN store
    /\ store[UserC].duration = 1

----------------------------------------------------------------------------
(* Properties of verifyAdminPassword *)

\* verifyAdminPassword has been called
AdminVerified == call.fn = "verifyAdminPassword" /\ ret.kind # "pending"

\* C17: verifyAdminPassword never throws and returns true exactly when the
\* digest of the candidate equals the stored digest; for every value that
\* is no password and every stored digest of malformed or wrong-length hex
\* it returns false
C17_AdminSecretExact ==
    AdminVerified =>
        /\ ret.kind = "return"
        /\ ret.v = (/\ generatePasswordHash(call.password).kind = "return"
                    /\ generatePasswordHash(call.password).v = Str(call.stored))

----------------------------------------------------------------------------
(* Properties of the scans *)

\* the scan has returned: from its catch, or after forEach
ScanReturned == call \in ScanCalls /\ ret.kind = "return"
ScanFailed == ScanReturned /\ scan = NoScan
ScanCompleted == ScanReturned /\ scan # NoScan

\* the least a normalized result is: an object carrying a message
HasMessage(result) == "message" \in DOMAIN result

\* C18: every operation of the state machine (Verify, Subscribe, Renew,
\* Cancel, ListAll, Stats) whose store call fails returns a result of the
\* normalized shape, an object with a generic message, and does not throw:
\* the four operations on one subject for any collection and subject, and
\* the scan that has just failed
C18_StoreFailureNormalized ==
    /\ \A st \in ScanStores, u \in Subjects :
          /\ verifySubscription(st, u, now, FALSE) = [message |-> MsgVerifyError]
          /\ subscribe(st, u, DefaultDays, now, FALSE).result
                = [message |-> MsgSubscribeError]
          /\ renewSubscriptionRead(st, u, DefaultDays, now, FALSE).result
                = [message |-> MsgRenewError]
          /\ cancelSubscriptionRead(st, u, FALSE).result
                = [message |-> MsgCancelError]
    /\ ScanFailed => HasMessage(ret.v)

StatsCompleted == ScanCompleted /\ call.fn = "getSubscriptionStats"

\* C19: every result of Stats has total = active + expired, and total is the
\* number of records of the snapshot scanned (which is the number of
\* documents of the collection)
C19_StatsConsistent ==
    StatsCompleted =>
        /\ ret.v.total = ret.v.active + ret.v.expired
        /\ ret.v.total = Len(scan.docs)
        /\ ret.v.total = Cardinality(DOMAIN store)

\* Stats has counted three records, some active and some expired
C19_MixedCounted ==
    /\ StatsCompleted
    /\ ret.v.total = Len(ScanUsers)
    /\ ret.v.active > 0
    /\ ret.v.expired > 0

\* C20: within one scan of ListAll or Stats every record is classified
\* against the same instant: two records of the scan with the same expiry
\* are never given different classes, neither while the scan visits them
\* nor in the list that ListAll returns
C20_OneNowPerScan ==
    /\ scan # NoScan =>
          \A i, j \in 1..Len(scan.seen) :
              scan.seen[i].expires = scan.seen[j].expires
                  => scan.seen[i].expired = scan.seen[j].expired
    /\ (ScanCompleted /\ call.fn = "getAllSubscriptions") =>
          \A i, j \in 1..Len(ret.v.subscriptions) :
              ret.v.subscriptions[i].expires = ret.v.subscriptions[j].expires
                  => ret.v.subscriptions[i].status = ret.v.subscriptions[j].status

----------------------------------------------------------------------------
(* Properties of the module load *)

\* C21: the process serves requests only if every required credential (the
\* signing secret, the admin password digest, the store credentials) is set
\* and the initialization of the store succeeded; with a credential missing
\* or the initialization failed the start is aborted; and no request is
\* ever answered with a store that is not initialized
C21_ServesOnlyConfigured ==
    /\ phase = "serving" =>
          /\ RequiredEnvVars \subseteq env.set
          /\ env.sdk
          /\ Initialized(env)
    /\ (phase # "loading" /\ ~(RequiredEnvVars \subseteq env.set /\ env.sdk))
          => phase = "aborted"
    /\ last.op # "none" => Initialized(env)

\* a request has been served from the store by a process that started with
\* every credential
C21_ServedConfigured ==
    /\ phase = "serving"
    /\ last.touched
    /\ env = FullEnvironment

----------------------------------------------------------------------------
(* Properties of the comparisons *)

\* the provided signature decodes to as many bytes as the expected one
SameLengthProvided ==
    /\ SigChecked
    /\ sigData.t = "object"
    /\ BufferFromHex(sigProvided).kind = "return"
    /\ Len(BufferFromHex(sigProvided).v) = DigestBytes

----------------------------------------------------------------------------
(* Properties of the operations that read *)

\* C26: Verify, ListAll and Stats are read-only: every step of theirs, in
\* every outcome (active, expired, absent, store error), leaves every record
\* of the store as it was and creates none
C26_ReadOnly ==
    [][(ret'.kind # ret.kind \/ scan' # scan) => store' = store]_vars

\* Verify has answered that the subscription is expired, and the record is
\* still in the store
C26_ExpiredStillStored ==
    /\ call \in VerifyCalls
    /\ ret.kind = "return"
    /\ ret.v = [message |-> MsgExpired]
    /\ Exists(store, call.username)
    /\ IsExpired(now, store[call.username].expires)

----------------------------------------------------------------------------
(* Properties of the envelope, the signature and the durations *)

\* C27: validateRequestData reports a payload valid only if its timestamp is
\* a number within 300000 ms of the current time: a timestamp that is zero
\* or is not a number is never reported valid
C27_ValidTimestampOnly ==
    (Validated /\ ret.v.isValid) =>
        /\ NumberTimestamp
        /\ TimestampDistance <= ReplayWindowMs

\* C28: verifySignature accepts only the exact signature: it answers true
\* only for a hex string of the length of sign(P) that encodes the same
\* bytes, so not for sign(P) followed by other characters and not for a
\* prefix of sign(P)
C28_ExactSignatureOnly ==
    (SigChecked /\ sigResult = Return(TRUE)) =>
        /\ sigProvided.t = "string"
        /\ Len(sigProvided.v) = Len(SigOf(sigData))
        /\ \A i \in 1..Len(sigProvided.v) : HexVal(sigProvided.v[i]) >= 0
        /\ HexDecodeFrom(sigProvided.v, 1) = HexDecodeFrom(SigOf(sigData), 1)

\* a client route has created or extended a record
ClientWrote ==
    /\ last'.result.message \in {MsgUpdated, MsgRenewed}
    /\ Answered("subscribe") \/ RenewWritten

\* C29: every Subscribe or Renew that a client route applies has a duration
\* of at least one day, a missing, zero or non-numeric days falling back to
\* 30; and a record just created through a client route is not already
\* expired
C29_DurationAtLeastOne ==
    [][ClientWrote =>
          /\ last'.duration >= 1
          /\ Answered("subscribe")
                => ~IsExpired(now, store'[last'.user.v].expires)]_vars

====
